---- MODULE Spec2Model ----
(***************************************************************************)
(* A model of BlissTranslator (src/main/blisscribe.py): the lexeme         *)
(* resolver (getLexeme, translateSynsets, ...), the translation memory     *)
(* (words_seen, words_changed, defns_chosen) and the token loop of         *)
(* translate() with its line and page breaking.                            *)
(*                                                                         *)
(* The code is Python 2.  Lengths are pixels, scaled down: the model's     *)
(* font size and page size are small numbers, every derived quantity       *)
(* (space, line height, image height) is computed from them as the code    *)
(* computes it.                                                            *)
(***************************************************************************)
EXTENDS Integers, Sequences, FiniteSets, TLC

VARIABLES
    \* ---- the session (fields of BlissTranslator) ----
    language,        \* self.language
    bliss_dict,      \* self.bliss_dict: word -> [list, imgs]
    polish_lexicon,  \* self.polish_lexicon: word -> word (Polish only)
    fast_translate,  \* self.fast_translate
    sub_all,         \* self.sub_all
    words_seen,      \* keys of self.words_seen
    words_changed,   \* keys of self.words_changed
    defns_chosen,    \* self.defns_chosen: word -> index
    \* ---- the collaborators the session calls (fixed during a behaviour) ----
    singular,        \* pattern.text.<lang>.singularize
    infinitive,      \* pattern.text.<lang>.lemma
    predicative,     \* pattern.text.<lang>.predicative
    wordnet,         \* word -> sequence of synsets [pos, lemmas]
    word_tag,        \* nltk.pos_tag([word]): the tag of a word on its own
    files,           \* the image files that can be opened
    gateway_down,    \* the gateways whose calls raise an exception
    \* ---- the running translate() call ----
    pc,              \* "idle" | "loop" | "done" | "raised"
    raw_phrase,      \* the lowered tokens
    tagged_list,     \* one tag per token
    img_w, img_h,    \* page size of this call
    idx, indent, line_no,
    bg,              \* the canvas in progress: the glyphs pasted on it
    pages,           \* the list `pages`
    pdf,             \* what makePdf was handed: pages[::-1]
    \* ---- the last chooseDefn() call ----
    ret,             \* [word, choice, value, prompted] or NoCall
    \* ---- the last resolver call ----
    res,             \* [word, lexeme, translatable, synonym, can] or NoCall
    \* ---- the part-of-speech policy ----
    CHOSEN_POS,      \* BlissTranslator.CHOSEN_POS: one set for the whole class
    translatables    \* session -> its self.nouns, self.verbs, self.adjs, self.other

session == <<language, bliss_dict, polish_lexicon, fast_translate, sub_all,
             words_seen, words_changed, defns_chosen>>
gateways == <<singular, infinitive, predicative, wordnet, word_tag, files,
              gateway_down>>
call == <<pc, raw_phrase, tagged_list, img_w, img_h, idx, indent, line_no,
          bg, pages, pdf>>
policy == <<CHOSEN_POS, translatables>>
vars == <<session, gateways, call, ret, res, policy>>

NoCall == [word |-> "none"]

(***************************************************************************)
(* Class constants                                                         *)
(***************************************************************************)
NEWLINE == "\n"
STARTING_PUNCT == {"(", "\"", "-"}
ENDING_PUNCT == {".", ",", ";", ":", "?", "!", ")", "\"", "-"}
PUNCTUATION == STARTING_PUNCT \cup ENDING_PUNCT \cup {"'"}
DEFAULT_POS == {"NN", "NNS", "VB", "VBD", "VBG", "VBN", "JJ", "JJR", "JJS"}
PARTS_OF_SPEECH ==
    {"CC", "CD", "DT", "EX", "FW", "IN", "JJ", "JJR", "JJS", "LS", "MD", "NN",
     "NNS", "NNP", "NNPS", "PDT", "POS", "PRP", "PRP$", "RB", "RBR", "RBS", "RP",
     "TO", "UH", "VB", "VBD", "VBG", "VBN", "VBP", "VBZ", "WDT", "WP", "WP$", "WRB"}

Min(a, b) == IF a <= b THEN a ELSE b
Max(a, b) == IF a >= b THEN a ELSE b
Lookup(f, k, default) == IF k \in DOMAIN f THEN f[k] ELSE default

(***************************************************************************)
(* The lexeme resolver                                                     *)
(***************************************************************************)
\* The languages pattern.text knows; every other language returns the input.
PatternLanguages == {"English", "Spanish", "German", "French", "Italian", "Dutch"}

getSingular(word) ==
    IF language \in PatternLanguages THEN Lookup(singular, word, word) ELSE word

getInfinitive(verb) ==
    IF language \in PatternLanguages THEN Lookup(infinitive, verb, verb) ELSE verb

getPredicative(adj) ==
    IF language \in PatternLanguages THEN Lookup(predicative, adj, adj) ELSE adj

\* a variant that tries the infinitive before the singular
getLexemeInfinitiveFirst(word) ==
    IF word \in DOMAIN bliss_dict THEN word
    ELSE IF language = "Polish"
         THEN Lookup(polish_lexicon, word, word)
         ELSE IF getInfinitive(word) \in DOMAIN bliss_dict THEN getInfinitive(word)
              ELSE IF getSingular(word) \in DOMAIN bliss_dict THEN getSingular(word)
                   ELSE IF getPredicative(word) \in DOMAIN bliss_dict
                        THEN getPredicative(word)
                        ELSE word

getLexeme(word) ==
    IF word \in DOMAIN bliss_dict THEN word
    ELSE IF language = "Polish"
         THEN Lookup(polish_lexicon, word, word)
         ELSE IF getSingular(word) \in DOMAIN bliss_dict THEN getSingular(word)
              ELSE IF getInfinitive(word) \in DOMAIN bliss_dict THEN getInfinitive(word)
                   ELSE IF getPredicative(word) \in DOMAIN bliss_dict
                        THEN getPredicative(word)
                        ELSE word

isTranslatable(word) == getLexeme(word) \in DOMAIN bliss_dict

getWordTag(word) == Lookup(word_tag, word, "NN")

\* tag[0:2] of a Penn Treebank tag
Prefix2(tag) ==
    CASE tag \in {"NN", "NNS", "NNP", "NNPS"} -> "NN"
      [] tag \in {"VB", "VBD", "VBG", "VBN", "VBP", "VBZ"} -> "VB"
      [] tag \in {"JJ", "JJR", "JJS"} -> "JJ"
      [] tag \in {"RB", "RBR", "RBS"} -> "RB"
      [] OTHER -> tag

getWordPOSNoAdverb(word) ==
    LET tag == Prefix2(getWordTag(word))
    IN  IF tag = "NN" THEN "n"
        ELSE IF tag = "VB" THEN "v"
        ELSE IF tag = "JJ" THEN "a"
        ELSE "n"

getWordPOS(word) ==
    LET tag == Prefix2(getWordTag(word))
    IN  IF tag = "NN" THEN "n"
        ELSE IF tag = "VB" THEN "v"
        ELSE IF tag = "JJ" THEN "a"
        ELSE IF tag = "RB" THEN "r"
        ELSE "n"

SynsetsOf(word) == Lookup(wordnet, word, <<>>)

\* wordnet.synsets(word, pos), and wordnet.synsets(word) when that is empty
getWordSynsets(word) ==
    LET pos == getWordPOS(word)
        all == SynsetsOf(word)
        ofPos == SelectSeq(all, LAMBDA s : s.pos = pos)
    IN  IF Len(ofPos) = 0 THEN all ELSE ofPos

getSynsetLemmas(synset) == synset.lemmas

\* the lemmas of the synsets, in scanning order
getSynsetsLemmas(synsets) ==
    LET RECURSIVE flat(_)
        flat(i) == IF i > Len(synsets) THEN <<>>
                   ELSE getSynsetLemmas(synsets[i]) \o flat(i + 1)
    IN  flat(1)

FirstWhere(seq, P(_)) ==
    LET hits == {i \in 1..Len(seq) : P(seq[i])}
    IN  IF hits = {} THEN 0 ELSE CHOOSE i \in hits : \A j \in hits : i <= j

\* a variant that takes only lemmas that are keys themselves
translateSynsetsNoLexeme(synsets) ==
    LET lemmas == getSynsetsLemmas(synsets)
        k == FirstWhere(lemmas, LAMBDA l : l \in DOMAIN bliss_dict)
    IN  IF k = 0 THEN "" ELSE lemmas[k]

translateSynsets(synsets) ==
    LET lemmas == getSynsetsLemmas(synsets)
        k == FirstWhere(lemmas, isTranslatable)
    IN  IF k = 0 THEN "" ELSE getLexeme(lemmas[k])

translateUntranslatable(word) == translateSynsets(getWordSynsets(word))

isSynonymTranslatable(word) == translateUntranslatable(word) # ""

canBeTranslated(word) == isTranslatable(word) \/ isSynonymTranslatable(word)

(***************************************************************************)
(* The translation memory                                                  *)
(***************************************************************************)
\* a variant that finds nothing in the memory
isSeenNever(word) == FALSE
isSeen(word) == word \in words_seen
\* a variant that adds nothing
addSeenForgets(word) == words_seen
\* a variant that replaces the dict instead of adding to it
addSeenReplaces(word) == {word}
addSeen(word) == words_seen \cup {word}
isChanged(word) == word \in words_changed
addChanged(word) == words_changed \cup {word}
\* initSeenChanged: both dicts are replaced by empty ones
initSeenChanged == {}

isPunctuation(word) == word \in PUNCTUATION
isStartingPunct(word) == word \in STARTING_PUNCT
isEndingPunct(word) == word \in ENDING_PUNCT
isNewline(word) == word = NEWLINE
isChosenPOS(pos) == pos \in CHOSEN_POS
isPluralNoun(word) == getWordTag(word) = "NNS"

(***************************************************************************)
(* Sizes.  font_size is fixed by __init__; the page size is an argument of *)
(* translate().                                                            *)
(***************************************************************************)
FontSize == 6
PageWidth == 40
PageHeight == 40

font_size == FontSize
image_heights == font_size * 5
getSpaceSize == (font_size * 2) \div 3      \* int(font_size / 1.5)
getMinSpace == 2
incLine(line, inc) == line * inc

(***************************************************************************)
(* The glyph renderer: what PIL would measure.  A glyph is                 *)
(* [kind, plural, w]; kind is "text", "symbol" (getBlissImg), "subtitled"  *)
(* (drawAlphabet with a Blissymbol over the word) or "blank" (drawAlphabet *)
(* of a word it cannot translate).                                         *)
(***************************************************************************)
\* width of the trimmed text of `word` at font_size
TextWidth(word) ==
    CASE word \in PUNCTUATION -> 2
      [] word = "n't" -> 5
      [] word = "automobile" -> 20
      [] word = "incomprehensibilities" -> PageWidth + 4
      [] OTHER -> 8

\* width of `word` in capitals at the subtitle size
SubtitleWidth(word) == (TextWidth(word) * 2) \div 3

\* width of the image file before img.thumbnail
RawWidth(file) ==
    CASE file = "cat.png" -> 12
      [] file = "car.png" -> PageWidth
      [] file = "indicator_(plural).png" -> 3
      [] OTHER -> 10

\* getWordImg(word).size[0]: the newline is a blank image, not trimmed
WordImgWidth(word) == IF word = NEWLINE THEN 1 * font_size ELSE TextWidth(word)

\* defns[choice] raises IndexError: a Python list takes -len..len-1
IndexError(defns, choice) == ~(-Len(defns) <= choice /\ choice <= Len(defns) - 1)

\* a variant that opens the definition stored in defns_chosen, if there is one
BlissFileOfChosenDefn(word) ==
    IF word = "indicator (plural)" THEN "indicator_(plural).png"
    ELSE IF bliss_dict[word].list
    THEN LET defns == bliss_dict[word].imgs
             choice == IF word \in DOMAIN defns_chosen THEN defns_chosen[word] ELSE 0
         IN  IF IndexError(defns, choice) THEN defns[0 + 1]
             ELSE IF choice < 0 THEN defns[Len(defns) + choice + 1]
             ELSE defns[choice + 1]
    ELSE bliss_dict[word].imgs[1]

\* the file getBlissImg opens for `word` (choosing = False: choice = 0)
BlissFile(word) ==
    IF word = "indicator (plural)" THEN "indicator_(plural).png"
    ELSE IF bliss_dict[word].list THEN bliss_dict[word].imgs[0 + 1]
    ELSE bliss_dict[word].imgs[1]

\* how getBlissImg(word, ...) ends: "KeyError", "IOError" or "ok"
BlissImgOutcome(word) ==
    IF word # "indicator (plural)" /\ word \notin DOMAIN bliss_dict THEN "KeyError"
    ELSE IF BlissFile(word) \notin files THEN "IOError"
    ELSE "ok"

\* getBlissImg(word, max_width, ...).size[0] after img.thumbnail
BlissImgWidth(word, max_width) == Min(RawWidth(BlissFile(word)), max_width)

\* the lexeme drawAlphabet draws for `word`
AlphabetLexeme(word) ==
    IF word \in DOMAIN bliss_dict THEN word
    ELSE IF isTranslatable(word) THEN getLexeme(word)
    ELSE translateUntranslatable(word)

AlphabetDraws(word) == isTranslatable(word) \/ isSynonymTranslatable(word)

drawAlphabetOutcome(word) ==
    IF AlphabetDraws(word) THEN BlissImgOutcome(AlphabetLexeme(word)) ELSE "ok"

\* drawAlphabet(word): one cell of image_heights, trimmed horizontally
drawAlphabet(word) ==
    LET glyph_bg_wh == image_heights
    IN  IF AlphabetDraws(word)
        THEN [kind |-> "subtitled", plural |-> FALSE,
              file |-> BlissFile(AlphabetLexeme(word)),
              w |-> Min(Max(BlissImgWidth(AlphabetLexeme(word), glyph_bg_wh),
                            SubtitleWidth(word)), glyph_bg_wh)]
        ELSE [kind |-> "blank", plural |-> FALSE, file |-> "", w |-> glyph_bg_wh]

getWordImg(word) ==
    [kind |-> "text", plural |-> FALSE, file |-> "", w |-> WordImgWidth(word)]

getBlissImg(word, max_width) ==
    [kind |-> "symbol", plural |-> FALSE, file |-> BlissFile(word),
     w |-> BlissImgWidth(word, max_width)]

getPluralImg(img, max_width) ==
    [img EXCEPT !.plural = TRUE,
                !.w = img.w + BlissImgWidth("indicator (plural)", max_width)]

\* getWordWidth of a token: the tokens are unicode objects, so type(word) == str
\* holds only for "\n" (answered first) and for the "" of getWordAtIndex;
\* word.size then raises AttributeError and the answer is font_size.
\* -1 stands for the exception getWordImg("") ends with.
getWordWidthOfToken(word) ==
    IF word = NEWLINE THEN 0
    ELSE IF word = "" THEN -1
    ELSE font_size

getWordAtIndex(token_phrase, i) ==
    IF i + 1 \in 1..Len(token_phrase) THEN token_phrase[i + 1] ELSE ""

(***************************************************************************)
(* A gateway that is down raises on every call; no call of translate() or  *)
(* of the resolver is inside a try.                                        *)
(***************************************************************************)
Gateways == {"tagger", "morphology", "synonym"}

\* getLexeme(word) calls pattern's singularize unless it returns before
getLexemeRaises(word) ==
    /\ "morphology" \in gateway_down
    /\ word \notin DOMAIN bliss_dict
    /\ language \in PatternLanguages

\* getWordSynsets(word) calls the tagger (getWordPOS) and then wordnet.synsets
getWordSynsetsRaises(word) ==
    "tagger" \in gateway_down \/ "synonym" \in gateway_down

\* lines 1357-1359 raise for this token: getLexeme(word), or the synonym
\* lookup canBeTranslated(lexeme) makes for a lexeme that is no key
TokenRaises(word, tag) ==
    \/ getLexemeRaises(word)
    \/ /\ ~isPunctuation(word)
       /\ isChosenPOS(tag)
       /\ ~isTranslatable(getLexeme(word))
       /\ getWordSynsetsRaises(getLexeme(word))

(***************************************************************************)
(* translate(): glyph selection for one token (lines 1357-1392)            *)
(***************************************************************************)
Selected(img, seen, changed, exc) ==
    [img |-> img, seen |-> seen, changed |-> changed, exc |-> exc]

\* a variant of SymbolPath that does not read sub_all
SymbolPathIgnoresSubAll(word, lexeme, new_lexeme, max_width) ==
    LET bare == isChanged(lexeme)
        img == IF bare THEN getBlissImg(new_lexeme, max_width) ELSE drawAlphabet(word)
        changed == IF bare THEN words_changed ELSE addChanged(lexeme)
    IN  IF isPluralNoun(word)
        THEN Selected(getPluralImg(img, max_width), words_seen, changed, "none")
        ELSE Selected(img, words_seen, changed, "none")

\* the else-clause of the try: bare symbol or drawAlphabet, then the plural
SymbolPath(word, lexeme, new_lexeme, max_width) ==
    LET bare == isChanged(lexeme) /\ ~sub_all
        img == IF bare THEN getBlissImg(new_lexeme, max_width) ELSE drawAlphabet(word)
        changed == IF bare THEN words_changed ELSE addChanged(lexeme)
    IN  IF ~bare /\ drawAlphabetOutcome(word) # "ok"
        THEN Selected(getWordImg(word), words_seen, words_changed,
                      drawAlphabetOutcome(word))
        ELSE IF isPluralNoun(word)
             THEN IF BlissImgOutcome("indicator (plural)") # "ok"
                  THEN Selected(img, words_seen, changed,
                                BlissImgOutcome("indicator (plural)"))
                  ELSE Selected(getPluralImg(img, max_width), words_seen, changed, "none")
             ELSE Selected(img, words_seen, changed, "none")

\* a variant that marks the tokens it does not translate as seen
SelectGlyphMarksIneligible(word, tag, max_width) ==
    LET lexeme == getLexeme(word)
        text == getWordImg(word)
    IN  IF ~isPunctuation(word) /\ isChosenPOS(tag) /\ canBeTranslated(lexeme)
        THEN IF fast_translate \/ isSeen(lexeme)
             THEN LET new_lexeme == IF isTranslatable(lexeme) THEN lexeme
                                    ELSE getLexeme(translateUntranslatable(word))
                      opened == BlissImgOutcome(new_lexeme)
                  IN  \* `except KeyError or IOError` catches KeyError only
                      IF opened = "KeyError"
                      THEN Selected(text, words_seen, words_changed, "none")
                      ELSE IF opened = "IOError"
                      THEN Selected(text, words_seen, words_changed, "IOError")
                      ELSE SymbolPath(word, lexeme, new_lexeme, max_width)
             ELSE Selected(text, addSeen(lexeme), words_changed, "none")
        ELSE Selected(text, addSeen(lexeme), words_changed, "none")

SelectGlyph(word, tag, max_width) ==
    LET lexeme == getLexeme(word)
        text == getWordImg(word)
    IN  IF ~isPunctuation(word) /\ isChosenPOS(tag) /\ canBeTranslated(lexeme)
        THEN IF fast_translate \/ isSeen(lexeme)
             THEN LET new_lexeme == IF isTranslatable(lexeme) THEN lexeme
                                    ELSE getLexeme(translateUntranslatable(word))
                      opened == BlissImgOutcome(new_lexeme)
                  IN  \* `except KeyError or IOError` catches KeyError only
                      IF opened = "KeyError"
                      THEN Selected(text, words_seen, words_changed, "none")
                      ELSE IF opened = "IOError"
                      THEN Selected(text, words_seen, words_changed, "IOError")
                      ELSE SymbolPath(word, lexeme, new_lexeme, max_width)
             ELSE Selected(text, addSeen(lexeme), words_changed, "none")
        ELSE Selected(text, words_seen, words_changed, "none")

(***************************************************************************)
(* translate(): spacing, line wrap and page break (lines 1394-1435)        *)
(***************************************************************************)
\* a variant with the third rule tested first
SpaceAfterDefaultFirst(this_word, next_word1) ==
    IF isStartingPunct(next_word1) \/ isEndingPunct(this_word) THEN getSpaceSize
    ELSE IF next_word1 = "n't" THEN getMinSpace
    ELSE IF isEndingPunct(this_word) /\ isEndingPunct(next_word1) THEN getMinSpace
    ELSE IF isEndingPunct(next_word1) \/ isStartingPunct(this_word) THEN getMinSpace
    ELSE getSpaceSize

\* a variant without the fourth rule
SpaceAfterThreeRules(this_word, next_word1) ==
    IF next_word1 = "n't" THEN getMinSpace
    ELSE IF isEndingPunct(this_word) /\ isEndingPunct(next_word1) THEN getMinSpace
    ELSE getSpaceSize

SpaceAfter(this_word, next_word1) ==
    IF next_word1 = "n't" THEN getMinSpace
    ELSE IF isEndingPunct(this_word) /\ isEndingPunct(next_word1) THEN getMinSpace
    ELSE IF isStartingPunct(next_word1) \/ isEndingPunct(this_word) THEN getSpaceSize
    ELSE IF isEndingPunct(next_word1) \/ isStartingPunct(this_word) THEN getMinSpace
    ELSE getSpaceSize

\* a variant that starts the line of an overflowing glyph with the paragraph
\* indent
LineWrapIndentsOverflow(x_inc, space, this_word, next_word1, next_word2, page_w) ==
    IF x_inc > page_w
    THEN [indent |-> font_size, line_no |-> line_no + 1, exc |-> "none"]
    ELSE IF isEndingPunct(next_word2) \/ isStartingPunct(next_word1)
    THEN IF getWordWidthOfToken(next_word1) < 0 \/ getWordWidthOfToken(next_word2) < 0
         THEN [indent |-> indent, line_no |-> line_no, exc |-> "IndexError"]
         ELSE IF x_inc + getWordWidthOfToken(next_word1) + space * 2
                   + getWordWidthOfToken(next_word2) > page_w
              THEN [indent |-> 0, line_no |-> line_no + 1, exc |-> "none"]
              ELSE [indent |-> indent, line_no |-> line_no, exc |-> "none"]
    ELSE IF this_word = NEWLINE
    THEN [indent |-> font_size, line_no |-> line_no + 1, exc |-> "none"]
    ELSE [indent |-> indent, line_no |-> line_no, exc |-> "none"]

\* the cursor after the line-wrap decision: [indent, line_no, exc]
LineWrap(x_inc, space, this_word, next_word1, next_word2, page_w) ==
    IF x_inc > page_w
    THEN [indent |-> 0, line_no |-> line_no + 1, exc |-> "none"]
    ELSE IF isEndingPunct(next_word2) \/ isStartingPunct(next_word1)
    THEN IF getWordWidthOfToken(next_word1) < 0 \/ getWordWidthOfToken(next_word2) < 0
         THEN [indent |-> indent, line_no |-> line_no, exc |-> "IndexError"]
         ELSE IF x_inc + getWordWidthOfToken(next_word1) + space * 2
                   + getWordWidthOfToken(next_word2) > page_w
              THEN [indent |-> 0, line_no |-> line_no + 1, exc |-> "none"]
              ELSE [indent |-> indent, line_no |-> line_no, exc |-> "none"]
    ELSE IF this_word = NEWLINE
    THEN [indent |-> font_size, line_no |-> line_no + 1, exc |-> "none"]
    ELSE [indent |-> indent, line_no |-> line_no, exc |-> "none"]

\* a variant that never starts a fresh page
PageBreakNever(line, y_inc, page_h) == FALSE
\* the line does not fit the page (line 1425)
PageBreak(line, y_inc, page_h) == (line + 1) * y_inc > page_h

BlankPage == [title |-> FALSE, glyphs |-> <<>>]
TitlePage == [title |-> TRUE, glyphs |-> <<>>]
Insert0(list, x) == <<x>> \o list
\* a variant that hands the list over as it was built
ReversedKeepsOrder(list) == list
Reversed(list) == [i \in 1..Len(list) |-> list[Len(list) + 1 - i]]

(***************************************************************************)
(* The documents a session is given.  getTokenPhrases appends a newline    *)
(* token after every phrase, so every token stream ends with one.          *)
(***************************************************************************)
MaxLen == 3

Token(word, tag) == [word |-> word, tag |-> tag]
NewlineToken == Token(NEWLINE, "NN")

\* tokens that exercise the memory: direct, normalized, synonym, ineligible tag
MemAlphabet ==
    { Token("cat", "NN"), Token("cats", "NNS"), Token("cat", "IN"),
      Token("automobile", "NN") }

\* tokens that exercise the layout: punctuation, paragraphs, a word wider
\* than the page
LayoutAlphabet ==
    { Token("cat", "NN"), Token("incomprehensibilities", "NNS"),
      Token(".", "."), Token("(", "("), NewlineToken }

\* tokens whose Blissymbol file cannot be opened, and an ambiguous word
FaultAlphabet == { Token("dog", "NN"), Token("bank", "NN") }

\* a word resolved through a synonym, the synonym itself, and punctuation
SynonymAlphabet == { Token("automobile", "NN"), Token("car", "NN"), Token("(", "(") }

SeqsUpTo(S, n) == UNION {[1..k -> S] : k \in 0..n}
Phrases(S, n) == {d \o <<NewlineToken>> : d \in SeqsUpTo(S, n)}
FaultDocs == Phrases(FaultAlphabet, MaxLen)
Docs ==
    Phrases(MemAlphabet, MaxLen) \cup Phrases(LayoutAlphabet, MaxLen)
        \cup Phrases(SynonymAlphabet, MaxLen) \cup FaultDocs

(***************************************************************************)
(* The part-of-speech policy (lines 90-91, 122-126, 278-362)               *)
(***************************************************************************)
\* self.nouns, self.verbs, self.adjs, self.other as __init__ sets them
DefaultTranslatables ==
    [nouns |-> TRUE, verbs |-> TRUE, adjs |-> TRUE, other |-> FALSE]

\* the set setTranslatables builds from the flags of the calling session
ChosenBy(t) ==
    (IF t.nouns THEN {"NN", "NNS"} ELSE {})
        \cup (IF t.verbs THEN {"VB", "VBD", "VBG", "VBN"} ELSE {})
        \cup (IF t.adjs THEN {"JJ", "JJR", "JJS"} ELSE {})
        \cup (IF t.other THEN PARTS_OF_SPEECH \ DEFAULT_POS ELSE {})

\* session s stores its flags t and resets the class attribute from them
setTranslatables(s, t) ==
    /\ s \in DOMAIN translatables
    /\ translatables' = [translatables EXCEPT ![s] = t]
    /\ CHOSEN_POS' = ChosenBy(t)
    /\ UNCHANGED <<session, gateways, call, ret, res>>

chooseNouns(s, nouns) ==
    /\ s \in DOMAIN translatables
    /\ setTranslatables(s, [translatables[s] EXCEPT !.nouns = nouns])

chooseVerbs(s, verbs) ==
    /\ s \in DOMAIN translatables
    /\ setTranslatables(s, [translatables[s] EXCEPT !.verbs = verbs])

chooseAdjs(s, adjs) ==
    /\ s \in DOMAIN translatables
    /\ setTranslatables(s, [translatables[s] EXCEPT !.adjs = adjs])

chooseOtherPOS(s, other) ==
    /\ s \in DOMAIN translatables
    /\ setTranslatables(s, [translatables[s] EXCEPT !.other = other])

\* the four choosers in turn, then setTranslatables once more
chooseTranslatables(s, nouns, verbs, adjs, other) ==
    /\ s \in DOMAIN translatables
    /\ setTranslatables(s, [nouns |-> nouns, verbs |-> verbs, adjs |-> adjs,
                            other |-> other])

\* BlissTranslator(): the constructor sets the flags of the new session and
\* leaves the class attribute as it finds it
NewSession(s) ==
    /\ s \notin DOMAIN translatables
    /\ translatables' = [x \in DOMAIN translatables \cup {s} |->
                            IF x = s THEN DefaultTranslatables ELSE translatables[x]]
    /\ UNCHANGED CHOSEN_POS
    /\ UNCHANGED <<session, gateways, call, ret, res>>

(***************************************************************************)
(* translate()                                                             *)
(***************************************************************************)
Glyph(i, word, img, x, line) ==
    [idx |-> i, word |-> word, kind |-> img.kind, plural |-> img.plural,
     file |-> img.file, x |-> x, line |-> line, w |-> img.w]

\* lines 1340-1354
TranslateStart(doc, w, h) ==
    /\ pc = "idle"
    /\ IF "tagger" \in gateway_down
       THEN \* tokensToTags raises at line 1344, before any local is set
            /\ pc' = "raised"
            /\ UNCHANGED <<raw_phrase, tagged_list, img_w, img_h, pages, bg,
                           indent, line_no, idx, pdf>>
       ELSE /\ pc' = "loop"
            /\ raw_phrase' = [i \in 1..Len(doc) |-> doc[i].word]
            /\ tagged_list' = [i \in 1..Len(doc) |-> doc[i].tag]
            /\ img_w' = w
            /\ img_h' = h
            /\ pages' = <<TitlePage>>
            /\ bg' = BlankPage
            /\ indent' = font_size
            /\ line_no' = 0
            /\ idx' = 0
            /\ pdf' = <<>>
    /\ ret' = NoCall
    /\ UNCHANGED policy
    /\ UNCHANGED <<session, gateways, res>>

Raise(seen, changed) ==
    /\ pc' = "raised"
    /\ words_seen' = seen
    /\ words_changed' = changed
    /\ UNCHANGED <<idx, indent, line_no, bg, pages>>

\* one iteration of `for word in raw_phrase`, lines 1356-1435
TranslateStep ==
    /\ pc = "loop"
    /\ idx < Len(raw_phrase)
    /\ LET word == raw_phrase[idx + 1]
           sel == SelectGlyph(word, tagged_list[idx + 1], img_w \div 2)
           img == sel.img
           x_inc == indent + img.w
           y_inc == font_size * 3
           this_word == raw_phrase[idx + 1]
           next_word1 == getWordAtIndex(raw_phrase, idx + 1)
           next_word2 == getWordAtIndex(raw_phrase, idx + 2)
           space == SpaceAfter(this_word, next_word1)
           wrap == LineWrap(x_inc, space, this_word, next_word1, next_word2, img_w)
           break == PageBreak(wrap.line_no, y_inc, img_h)
           line == IF break THEN 0 ELSE wrap.line_no
           canvas == IF break THEN BlankPage ELSE bg
       IN  IF TokenRaises(word, tagged_list[idx + 1])
           THEN Raise(words_seen, words_changed)
           ELSE IF sel.exc # "none" THEN Raise(sel.seen, sel.changed)
           ELSE IF wrap.exc # "none" THEN Raise(sel.seen, sel.changed)
           ELSE /\ pc' = "loop"
                /\ words_seen' = sel.seen
                /\ words_changed' = sel.changed
                /\ pages' = IF break THEN Insert0(pages, bg) ELSE pages
                /\ line_no' = line
                /\ bg' = [canvas EXCEPT !.glyphs =
                            Append(@, Glyph(idx, word, img, wrap.indent,
                                            incLine(line, y_inc)))]
                /\ indent' = wrap.indent + img.w + space
                /\ idx' = idx + 1
    /\ UNCHANGED policy
    /\ UNCHANGED <<language, bliss_dict, polish_lexicon, fast_translate, sub_all,
                   defns_chosen, gateways, raw_phrase, tagged_list, img_w, img_h,
                   pdf, ret, res>>

\* lines 1437-1439
TranslateEnd ==
    /\ pc = "loop"
    /\ idx = Len(raw_phrase)
    /\ pc' = "done"
    /\ pages' = Insert0(pages, bg)
    /\ pdf' = Reversed(pages')
    /\ words_seen' = initSeenChanged
    /\ words_changed' = initSeenChanged
    /\ UNCHANGED policy
    /\ UNCHANGED <<language, bliss_dict, polish_lexicon, fast_translate, sub_all,
                   defns_chosen, gateways, raw_phrase, tagged_list, img_w, img_h,
                   idx, indent, line_no, bg, ret, res>>

\* translate() has returned or raised: its locals are gone
NoLocals ==
    /\ raw_phrase' = <<>>
    /\ tagged_list' = <<>>
    /\ img_w' = 0
    /\ img_h' = 0
    /\ idx' = 0
    /\ indent' = 0
    /\ line_no' = 0
    /\ bg' = BlankPage
    /\ pages' = <<>>
    /\ pdf' = <<>>

TranslateReturn ==
    /\ pc \in {"done", "raised"}
    /\ pc' = "idle"
    /\ NoLocals
    /\ UNCHANGED policy
    /\ UNCHANGED <<session, gateways, ret, res>>

(***************************************************************************)
(* The setters and chooseDefn                                              *)
(***************************************************************************)
setFastTranslate(b) ==
    /\ pc = "idle"
    /\ fast_translate' = b
    /\ UNCHANGED policy
    /\ UNCHANGED <<language, bliss_dict, polish_lexicon, sub_all, words_seen,
                   words_changed, defns_chosen, gateways, call, ret, res>>

setSubAll(b) ==
    /\ pc = "idle"
    /\ sub_all' = b
    /\ UNCHANGED policy
    /\ UNCHANGED <<language, bliss_dict, polish_lexicon, fast_translate, words_seen,
                   words_changed, defns_chosen, gateways, call, ret, res>>

\* what input() may answer
Choices == -1..3

Returned(word, choice, value, prompted, exc) ==
    [word |-> word, choice |-> choice, value |-> value, prompted |-> prompted,
     exc |-> exc]

\* a variant that stores the 0 it returns for a rejected answer
chooseDefnStoresClamped(word, choice) ==
    /\ pc = "idle"
    /\ IF word \notin DOMAIN defns_chosen
       THEN IF word \notin DOMAIN bliss_dict
            THEN /\ ret' = Returned(word, 0, 0, FALSE, "KeyError")
                 /\ UNCHANGED defns_chosen
            ELSE IF ~bliss_dict[word].list
            THEN /\ ret' = Returned(word, 0, 0, FALSE, "AssertionError")
                 /\ UNCHANGED defns_chosen
            ELSE LET value == IF IndexError(bliss_dict[word].imgs, choice)
                              THEN 0 ELSE choice - 1
                 IN  /\ ret' = Returned(word, choice, value, TRUE, "none")
                     /\ defns_chosen' = [w \in DOMAIN defns_chosen \cup {word} |->
                                           IF w = word THEN value ELSE defns_chosen[w]]
       ELSE /\ ret' = Returned(word, 0, defns_chosen[word], FALSE, "none")
            /\ UNCHANGED defns_chosen
    /\ UNCHANGED policy
    /\ UNCHANGED <<language, bliss_dict, polish_lexicon, fast_translate, sub_all,
                   words_seen, words_changed, gateways, call, res>>

\* lines 1122-1144; `choice` is what the prompt answers if it is asked
chooseDefn(word, choice) ==
    /\ pc = "idle"
    /\ IF word \notin DOMAIN defns_chosen
       THEN IF word \notin DOMAIN bliss_dict
            THEN /\ ret' = Returned(word, 0, 0, FALSE, "KeyError")
                 /\ UNCHANGED defns_chosen
            ELSE IF ~bliss_dict[word].list
            THEN /\ ret' = Returned(word, 0, 0, FALSE, "AssertionError")
                 /\ UNCHANGED defns_chosen
            ELSE IF IndexError(bliss_dict[word].imgs, choice)
            THEN /\ ret' = Returned(word, choice, 0, TRUE, "none")
                 /\ UNCHANGED defns_chosen
            ELSE /\ ret' = Returned(word, choice, choice - 1, TRUE, "none")
                 /\ defns_chosen' = [w \in DOMAIN defns_chosen \cup {word} |->
                                       IF w = word THEN choice - 1 ELSE defns_chosen[w]]
       ELSE /\ ret' = Returned(word, 0, defns_chosen[word], FALSE, "none")
            /\ UNCHANGED defns_chosen
    /\ UNCHANGED policy
    /\ UNCHANGED <<language, bliss_dict, polish_lexicon, fast_translate, sub_all,
                   words_seen, words_changed, gateways, call, res>>

(***************************************************************************)
(* An English session over a small lexicon                                 *)
(***************************************************************************)
Single(img) == [list |-> FALSE, imgs |-> <<img>>]
Several(imgs) == [list |-> TRUE, imgs |-> imgs]
Synset(pos, lemmas) == [pos |-> pos, lemmas |-> lemmas]
Table(S, f(_)) == [x \in S |-> f(x)]

EnglishDict ==
    [w \in {"cat", "car", "dog", "bank", "bat"} |->
        CASE w = "cat" -> Single("cat.png")
          [] w = "car" -> Single("car.png")
          [] w = "dog" -> Single("dog.png")
          [] w = "bank" -> Several(<<"bank_(money).png", "bank_(river).png">>)
          [] w = "bat" -> Several(<<"bat.png">>)]

EnglishSession(down) ==
    /\ language = "English"
    /\ bliss_dict = EnglishDict
    /\ polish_lexicon = <<>>
    /\ fast_translate = FALSE
    /\ sub_all = FALSE
    /\ words_seen = initSeenChanged
    /\ words_changed = initSeenChanged
    /\ defns_chosen = <<>>
    /\ singular = [w \in {"cats"} |-> "cat"]
    /\ infinitive = <<>>
    /\ predicative = <<>>
    /\ wordnet = [w \in {"automobile"} |-> <<Synset("n", <<"auto", "car">>)>>]
    /\ word_tag = [w \in {"cats"} |-> "NNS"]
    /\ files = {"cat.png", "car.png", "bank_(money).png", "bank_(river).png",
                "bat.png", "indicator_(plural).png"}
    /\ gateway_down = down
    /\ pc = "idle"
    /\ raw_phrase = <<>>
    /\ tagged_list = <<>>
    /\ img_w = 0
    /\ img_h = 0
    /\ idx = 0
    /\ indent = 0
    /\ line_no = 0
    /\ bg = BlankPage
    /\ pages = <<>>
    /\ pdf = <<>>
    /\ ret = NoCall
    /\ res = NoCall
    /\ CHOSEN_POS = DEFAULT_POS
    /\ translatables = [s \in {"first"} |-> DefaultTranslatables]

Init == EnglishSession({})

Next ==
    \/ \E doc \in Docs : TranslateStart(doc, PageWidth, PageHeight)
    \/ TranslateStep
    \/ TranslateEnd
    \/ TranslateReturn
    \/ \E b \in BOOLEAN : setFastTranslate(b)
    \/ \E b \in BOOLEAN : setSubAll(b)

Spec == Init /\ [][Next]_vars

(***************************************************************************)
(* The same session asked for definitions between short documents          *)
(***************************************************************************)
NextChoose ==
    \/ \E doc \in FaultDocs : TranslateStart(doc, PageWidth, PageHeight)
    \/ TranslateStep
    \/ TranslateEnd
    \/ TranslateReturn
    \/ \E word \in DOMAIN bliss_dict, choice \in Choices : chooseDefn(word, choice)

SpecChoose == Init /\ [][NextChoose]_vars

(***************************************************************************)
(* Documents laid out on pages of several heights: img_h is an argument of *)
(* translate(), and nothing in it compares the page with the line height.  *)
(***************************************************************************)
LineHeight == font_size * 3                 \* y_inc, line 1396
PageHeights == {font_size * 2, LineHeight, PageHeight}
PageAlphabet == { Token("cat", "NN"), Token(".", "."), NewlineToken }
PageDocs == Phrases(PageAlphabet, MaxLen)

NextPages ==
    \/ \E doc \in PageDocs, h \in PageHeights : TranslateStart(doc, PageWidth, h)
    \/ TranslateStep
    \/ TranslateEnd
    \/ TranslateReturn

SpecPages == Init /\ [][NextPages]_vars

(***************************************************************************)
(* Several sessions of one process choosing their parts of speech          *)
(***************************************************************************)
Sessions == {"first", "second"}

NextPolicy ==
    \/ \E s \in Sessions : NewSession(s)
    \/ \E s \in Sessions, b \in BOOLEAN : chooseNouns(s, b)
    \/ \E s \in Sessions, b \in BOOLEAN : chooseVerbs(s, b)
    \/ \E s \in Sessions, b \in BOOLEAN : chooseAdjs(s, b)
    \/ \E s \in Sessions, b \in BOOLEAN : chooseOtherPOS(s, b)
    \/ \E s \in Sessions, n, v, a, o \in BOOLEAN : chooseTranslatables(s, n, v, a, o)

SpecPolicy == Init /\ [][NextPolicy]_vars

(***************************************************************************)
(* The same session given contractions, punctuation and quotation marks    *)
(***************************************************************************)
SpacingAlphabet ==
    { Token("cat", "NN"), Token("n't", "RB"), Token(".", "."), Token("(", "("),
      Token("\"", "''") }
SpacingDocs == Phrases(SpacingAlphabet, MaxLen)

NextSpacing ==
    \/ \E doc \in SpacingDocs : TranslateStart(doc, PageWidth, PageHeight)
    \/ TranslateStep
    \/ TranslateEnd
    \/ TranslateReturn

SpecSpacing == Init /\ [][NextSpacing]_vars

(***************************************************************************)
(* The same session with some of its gateways down                         *)
(***************************************************************************)
InitGateway == \E down \in SUBSET Gateways : EnglishSession(down)

NextGateway ==
    \/ \E doc \in Phrases(MemAlphabet, MaxLen) : TranslateStart(doc, PageWidth, PageHeight)
    \/ TranslateStep
    \/ TranslateEnd
    \/ TranslateReturn
    \/ \E b \in BOOLEAN : setFastTranslate(b)

SpecGateway == InitGateway /\ [][NextGateway]_vars

(***************************************************************************)
(* The resolver on its own: a lexicon, gateways and a language drawn from  *)
(* small sets, and the resolution of one word as translate() performs it   *)
(* (lines 1357-1368).                                                      *)
(***************************************************************************)
ResolveWords == {"a", "b", "c"}
Languages == {"English", "Swedish", "Polish"}

SingularTables == { <<>>, [w \in {"a"} |-> "b"], [w \in {"b"} |-> "c"] }
InfinitiveTables == { <<>>, [w \in {"a"} |-> "c"], [w \in {"b"} |-> "c"] }
PredicativeTables == { <<>>, [w \in {"a"} |-> "c"] }
WordnetTables ==
    { <<>>,
      [w \in {"a"} |-> <<Synset("n", <<"b">>)>>],
      [w \in {"a"} |-> <<Synset("n", <<"b", "c">>)>>],
      [w \in {"a"} |-> <<Synset("v", <<"c">>), Synset("n", <<"b", "a">>)>>],
      [w \in {"a"} |-> <<Synset("n", <<"b">>), Synset("r", <<"c">>),
                         Synset("a", <<"a">>)>>] }
TagTables ==
    { <<>>, [w \in {"a"} |-> "VBD"], [w \in {"a"} |-> "RB"],
      [w \in {"a"} |-> "JJR"], [w \in {"a"} |-> "IN"] }
PolishLexica == { <<>>, [w \in {"a"} |-> "b"], [w \in {"a", "b"} |-> "c"] }

Resolved(word) ==
    LET lexeme == getLexeme(word)
        new_lexeme == IF isTranslatable(lexeme) THEN lexeme
                      ELSE getLexeme(translateUntranslatable(word))
    IN  [word |-> word,
         lexeme |-> lexeme,
         can |-> canBeTranslated(lexeme),
         kind |-> IF isTranslatable(lexeme) THEN "Direct"
                  ELSE IF isSynonymTranslatable(lexeme) THEN "Synonym"
                  ELSE "None",
         new_lexeme |-> new_lexeme,
         synsets |-> getWordSynsets(word),
         synonym |-> translateUntranslatable(word)]

Resolve(word) ==
    /\ res' = Resolved(word)
    /\ UNCHANGED policy
    /\ UNCHANGED <<session, gateways, call, ret>>

InitResolve ==
    /\ language \in Languages
    /\ \E keys \in SUBSET ResolveWords : bliss_dict = [w \in keys |-> Single("w.png")]
    /\ polish_lexicon \in (IF language = "Polish" THEN PolishLexica ELSE {<<>>})
    /\ fast_translate = FALSE
    /\ sub_all = FALSE
    /\ words_seen = initSeenChanged
    /\ words_changed = initSeenChanged
    /\ defns_chosen = <<>>
    /\ singular \in SingularTables
    /\ infinitive \in InfinitiveTables
    /\ predicative \in PredicativeTables
    /\ wordnet \in WordnetTables
    /\ word_tag \in TagTables
    /\ files = {"w.png"}
    /\ gateway_down = {}
    /\ pc = "idle"
    /\ raw_phrase = <<>>
    /\ tagged_list = <<>>
    /\ img_w = 0
    /\ img_h = 0
    /\ idx = 0
    /\ indent = 0
    /\ line_no = 0
    /\ bg = BlankPage
    /\ pages = <<>>
    /\ pdf = <<>>
    /\ ret = NoCall
    /\ res = NoCall
    /\ CHOSEN_POS = DEFAULT_POS
    /\ translatables = [s \in {"first"} |-> DefaultTranslatables]

NextResolve == \E word \in ResolveWords : Resolve(word)

SpecResolve == InitResolve /\ [][NextResolve]_vars

(***************************************************************************)
(* Vocabulary of the properties                                            *)
(***************************************************************************)
Range(seq) == {seq[i] : i \in 1..Len(seq)}

\* every glyph pasted so far in this call, on the canvas in progress or on a
\* canvas already stored in `pages`
PlacedGlyphs == Range(bg.glyphs) \cup UNION {Range(p.glyphs) : p \in Range(pages)}

InCall == pc \in {"loop", "done", "raised"}

\* the memory key of token i (0-based): the `lexeme` of line 1357
LexemeAt(i) == getLexeme(raw_phrase[i + 1])

\* token i passes the test of line 1359
Eligible(i) ==
    /\ ~isPunctuation(raw_phrase[i + 1])
    /\ isChosenPOS(tagged_list[i + 1])
    /\ canBeTranslated(LexemeAt(i))

\* the Blissymbol of token i can be produced
Available(i) ==
    LET new_lexeme == IF isTranslatable(LexemeAt(i)) THEN LexemeAt(i)
                      ELSE getLexeme(translateUntranslatable(raw_phrase[i + 1]))
    IN  BlissImgOutcome(new_lexeme) = "ok"

\* token i is the n-th eligible occurrence of its lexeme in this call
OccurrenceNo(i) ==
    Cardinality({j \in 0..i : Eligible(j) /\ LexemeAt(j) = LexemeAt(i)})

(***************************************************************************)
(* C1.  Progressive disclosure, fast_translate = False, sub_all = False:   *)
(* in one translate call the eligible occurrences of a lexeme whose        *)
(* Blissymbol is available are rendered as text (1st), as a subtitled      *)
(* symbol (2nd) and as a bare symbol (3rd and later).                      *)
(***************************************************************************)
C1_ProgressiveDisclosure ==
    (InCall /\ ~fast_translate /\ ~sub_all) =>
        \A g \in PlacedGlyphs :
            (Eligible(g.idx) /\ Available(g.idx)) =>
                g.kind = CASE OccurrenceNo(g.idx) = 1 -> "text"
                           [] OccurrenceNo(g.idx) = 2 -> "subtitled"
                           [] OTHER -> "symbol"

(***************************************************************************)
(* C2.  Fast mode, sub_all = False: the first eligible occurrence of a     *)
(* lexeme whose Blissymbol is available is a subtitled symbol and marks    *)
(* the lexeme changed, every later one is a bare symbol, none is text.     *)
(***************************************************************************)
C2_FastMode ==
    (InCall /\ fast_translate /\ ~sub_all) =>
        \A g \in PlacedGlyphs :
            (Eligible(g.idx) /\ Available(g.idx)) =>
                /\ g.kind = IF OccurrenceNo(g.idx) = 1 THEN "subtitled" ELSE "symbol"
                /\ pc = "loop" => isChanged(LexemeAt(g.idx))

(***************************************************************************)
(* C3.  With sub_all = True every glyph of the symbol path carries a       *)
(* subtitle: no bare symbol is placed, however often the lexeme was        *)
(* rendered as a symbol before.                                            *)
(***************************************************************************)
C3_SubAllAlwaysSubtitles ==
    (InCall /\ sub_all) =>
        \A g \in PlacedGlyphs :
            /\ g.kind \in {"text", "subtitled"}
            /\ (Eligible(g.idx) /\ Available(g.idx)
                    /\ (fast_translate \/ OccurrenceNo(g.idx) >= 2))
                 => g.kind = "subtitled"

\* a lexeme already marked changed is drawn with a subtitle again
C3_Witness ==
    /\ InCall /\ sub_all
    /\ \E g1, g2 \in PlacedGlyphs :
          /\ g1.idx < g2.idx
          /\ LexemeAt(g1.idx) = LexemeAt(g2.idx)
          /\ g1.kind = "subtitled" /\ g2.kind = "subtitled"

(***************************************************************************)
(* C4.  Monotonic memory: no step of the token loop removes a lexeme from  *)
(* words_seen or from words_changed.                                       *)
(***************************************************************************)
C4_MonotonicMemory ==
    [][(pc = "loop" /\ pc' \in {"loop", "raised"}) =>
          (words_seen \subseteq words_seen' /\ words_changed \subseteq words_changed')]_vars

\* two lexemes are in the memory while the loop runs
C4_Witness ==
    /\ pc = "loop"
    /\ Cardinality(words_seen) >= 2
    /\ words_changed # {}

(***************************************************************************)
(* C5.  Memory reset per document: when a translate call starts,           *)
(* words_seen and words_changed are empty, whatever calls came before.     *)
(***************************************************************************)
C5_MemoryEmptyAtStart ==
    (pc = "loop" /\ idx = 0) => (words_seen = {} /\ words_changed = {})

(***************************************************************************)
(* C6.  Sticky choice: once the prompt of chooseDefn was answered with one *)
(* of the listed definitions (1..n), the next chooseDefn call for that     *)
(* word returns the same index and does not prompt.                        *)
(***************************************************************************)
Candidates(word) == Len(bliss_dict[word].imgs)

C6_StickyChoice ==
    [][(/\ pc = "idle" /\ pc' = "idle"
        /\ ret # NoCall /\ ret' # NoCall
        /\ ret.exc = "none" /\ ret.prompted
        /\ ret.choice \in 1..Candidates(ret.word)
        /\ ret'.word = ret.word)
         => (~ret'.prompted /\ ret'.value = ret.value)]_vars

(***************************************************************************)
(* C7.  Clamped choice: for a word with n definitions chooseDefn returns   *)
(* an index in 0..n-1 whatever integer the prompt answers, 0 when the      *)
(* answer is none of the listed definitions 1..n, and does not raise.      *)
(***************************************************************************)
C7_ChoiceInRange ==
    (ret # NoCall /\ ret.word \in DOMAIN bliss_dict /\ bliss_dict[ret.word].list) =>
        /\ ret.exc = "none"
        /\ 0 <= ret.value /\ ret.value < Candidates(ret.word)
        /\ (ret.prompted /\ ret.choice \notin 1..Candidates(ret.word)) => ret.value = 0

(***************************************************************************)
(* C8.  Resolution order: a word that is a key resolves to itself,         *)
(* otherwise to the first of its singular, infinitive and predicative      *)
(* that is a key; synonyms are used only when none of the four is a key;   *)
(* a word with no match cannot be translated.                              *)
(***************************************************************************)
Forms(word) == <<word, getSingular(word), getInfinitive(word), getPredicative(word)>>
FirstKey(word) == FirstWhere(Forms(word), LAMBDA f : f \in DOMAIN bliss_dict)

ResolutionOrder ==
    /\ FirstKey(res.word) # 0 =>
          /\ res.kind = "Direct"
          /\ res.lexeme = Forms(res.word)[FirstKey(res.word)]
          /\ res.new_lexeme = res.lexeme
    /\ FirstKey(res.word) = 0 =>
          /\ res.kind # "Direct"
          /\ res.kind = "Synonym" <=> res.synonym # ""
          /\ res.kind = "Synonym" => res.new_lexeme = res.synonym
    /\ res.can <=> res.kind # "None"

C10_RightEdgeInsidePage ==
    InCall => \A g \in PlacedGlyphs : g.x + g.w <= img_w

\* what the wrap does achieve: the bound for the glyphs that fit a line (a glyph
\* no wider than the page, the newline marker no wider than the page less the
\* paragraph indent)
FitsALine(g) ==
    /\ g.w <= img_w
    /\ g.word = NEWLINE => font_size + g.w <= img_w

C10_RightEdgeInsidePageIfFits ==
    InCall => \A g \in PlacedGlyphs : FitsALine(g) => g.x + g.w <= img_w

\* a glyph that did not fit the rest of its line starts the next one
C10_Witness ==
    /\ InCall
    /\ \E g, h \in PlacedGlyphs :
          /\ h.idx + 1 = g.idx
          /\ h.x + h.w + getMinSpace + g.w > img_w
          /\ g.w <= img_w
          /\ g.x = 0 /\ g.line > h.line

(***************************************************************************)
(* C11.  Page-height bound: every glyph is pasted on a line whose bottom   *)
(* edge is inside the page, (line_no + 1) * line_height <= page height.    *)
(***************************************************************************)
C11_BottomEdgeInsidePage ==
    InCall => \A g \in PlacedGlyphs : g.line + LineHeight <= img_h

(***************************************************************************)
(* C12.  Punctuation non-orphan: when the token after token i is opening   *)
(* punctuation, or the token two after it is closing punctuation, tokens   *)
(* i, i+1 and i+2 are pasted on the same line of the same page.            *)
(***************************************************************************)
\* the number of the canvas glyph g was pasted on (the title page is 0)
PageNo(g) ==
    IF \E k \in 1..Len(pages) : g \in Range(pages[k].glyphs)
    THEN Len(pages) - (CHOOSE k \in 1..Len(pages) : g \in Range(pages[k].glyphs))
    ELSE Len(pages)

SameLine(g, h) == g.line = h.line /\ PageNo(g) = PageNo(h)

\* the three tokens are words or punctuation (no newline marker, which starts a
\* line of its own) and each glyph fits the page
C12_PunctuationNotOrphaned ==
    InCall =>
        \A g0, g1, g2 \in PlacedGlyphs :
            (/\ g1.idx = g0.idx + 1 /\ g2.idx = g0.idx + 2
             /\ NEWLINE \notin {g0.word, g1.word, g2.word}
             /\ g0.w <= img_w /\ g1.w <= img_w /\ g2.w <= img_w
             /\ \/ isStartingPunct(g1.word)
                \/ isEndingPunct(g2.word))
              => (SameLine(g0, g1) /\ SameLine(g1, g2))

(***************************************************************************)
(* C13.  Output ordering: makePdf is handed the title page first, then the *)
(* canvases in the order they were filled, the canvas in progress at the   *)
(* end of the input last; a token's glyph is never on a later page than    *)
(* the glyph of a later token, and every token's glyph is on one page.     *)
(***************************************************************************)
GlyphsOf(page) == Range(page.glyphs)

C13_OutputOrdering ==
    /\ InCall =>
          \A g, h \in PlacedGlyphs : g.idx < h.idx => PageNo(g) <= PageNo(h)
    /\ pc = "done" =>
          /\ Len(pdf) >= 2
          /\ pdf[1] = TitlePage
          /\ \A k \in 2..Len(pdf) : ~pdf[k].title
          /\ pdf[Len(pdf)] = bg
          /\ \A k, l \in 2..Len(pdf) :
                k < l => \A g \in GlyphsOf(pdf[k]), h \in GlyphsOf(pdf[l]) : g.idx < h.idx
          /\ \A i \in 0..(Len(raw_phrase) - 1) :
                Cardinality({k \in 1..Len(pdf) :
                                \E g \in GlyphsOf(pdf[k]) : g.idx = i}) = 1

\* a document that filled two canvases has been handed over
C13_Witness ==
    /\ pc = "done"
    /\ Len(pdf) >= 3
    /\ pdf[2].glyphs # <<>>
    /\ pdf[3].glyphs # <<>>

(***************************************************************************)
(* C14.  Missing glyph asset: an eligible token whose Blissymbol cannot be *)
(* produced (the lexeme is no key of bliss_dict, or its file cannot be     *)
(* opened) is rendered as text, and translate goes on to the next token.   *)
(***************************************************************************)
C14_MissingAssetFallsBackToText ==
    InCall =>
        /\ pc # "raised"
        /\ \A g \in PlacedGlyphs :
              (Eligible(g.idx) /\ ~Available(g.idx)) => g.kind = "text"

(***************************************************************************)
(* C15.  Gateway failure is absorbed: with the tagger, the morphology or   *)
(* the synonym gateway failing, translate raises nothing, renders the      *)
(* token the failure concerns as text, and hands over a page sequence.     *)
(***************************************************************************)
C15_GatewayFailureAbsorbed ==
    (InCall /\ gateway_down # {}) =>
        /\ pc # "raised"
        /\ \A g \in PlacedGlyphs :
              (getLexemeRaises(g.word) \/ getWordSynsetsRaises(g.word)) => g.kind = "text"
        /\ pc = "done" => Len(pdf) >= 2

(***************************************************************************)
(* C16.  chooseDefn persists what it returns.  As stated: after a prompted *)
(* call returned i, accepted or clamped, defns_chosen holds i for the word *)
(* (so the next call returns i without prompting).                         *)
(***************************************************************************)
C16_PersistsWhatItReturns ==
    (ret # NoCall /\ ret.exc = "none" /\ ret.prompted) =>
        /\ ret.word \in DOMAIN defns_chosen
        /\ defns_chosen[ret.word] = ret.value

\* C16 as the code has it: an accepted answer (defns[choice] raises nothing) is
\* stored as choice - 1 and returned; a rejected answer returns 0 and stores
\* nothing, so the word is asked about again; a call that did not prompt
\* returned the stored index
C16_PersistsAcceptedAnswerOnly ==
    (ret # NoCall /\ ret.exc = "none") =>
        IF ~ret.prompted
        THEN /\ ret.word \in DOMAIN defns_chosen
             /\ ret.value = defns_chosen[ret.word]
        ELSE IF ret.choice \in (0 - Candidates(ret.word))..(Candidates(ret.word) - 1)
        THEN /\ ret.value = ret.choice - 1
             /\ ret.word \in DOMAIN defns_chosen
             /\ defns_chosen[ret.word] = ret.value
        ELSE /\ ret.value = 0
             /\ ret.word \notin DOMAIN defns_chosen

\* an answer beyond the list was turned into 0 and nothing was stored
C16_Witness ==
    /\ ret # NoCall /\ ret.exc = "none" /\ ret.prompted
    /\ ret.choice > Candidates(ret.word)
    /\ ret.value = 0
    /\ ret.word \notin DOMAIN defns_chosen

(***************************************************************************)
(* C17.  Single-candidate short-circuit: for a word with exactly one       *)
(* definition chooseDefn returns 0, does not prompt and does not fail.     *)
(***************************************************************************)
C17_SingleCandidateShortCircuit ==
    (ret # NoCall /\ ret.word \in DOMAIN bliss_dict /\ Candidates(ret.word) = 1) =>
        /\ ret.exc = "none"
        /\ ~ret.prompted
        /\ ret.value = 0

(***************************************************************************)
(* C18.  What the memory is keyed by.  As stated: by the resolved lexeme,  *)
(* whether the match is direct, normalized or by synonym: in non-fast mode *)
(* a later eligible token that resolves to the lexeme of an earlier one    *)
(* takes the symbol path, and is drawn bare once the lexeme was changed.   *)
(***************************************************************************)
\* the lexeme whose Blissymbol is drawn for token i: new_lexeme, lines 1365-1368
ResolvedAt(i) ==
    IF isTranslatable(LexemeAt(i)) THEN LexemeAt(i)
    ELSE getLexeme(translateUntranslatable(raw_phrase[i + 1]))

\* a later eligible token with the same key as an earlier one is not text, and
\* is a bare symbol if the earlier one was drawn as a symbol (sub_all = False)
SharedMemory(Key(_)) ==
    (InCall /\ ~fast_translate) =>
        \A h, g \in PlacedGlyphs :
            (/\ h.idx < g.idx
             /\ Eligible(h.idx) /\ Eligible(g.idx)
             /\ Key(h.idx) = Key(g.idx)
             /\ Available(g.idx))
              => /\ g.kind # "text"
                 /\ (~sub_all /\ h.kind # "text") => g.kind = "symbol"

C18_KeyedByResolvedLexeme == SharedMemory(ResolvedAt)

\* C18 as the code has it: the key is getLexeme(token), the token or its
\* normalized form, also for a token that is resolved through a synonym
C18_KeyedByNormalizedToken == SharedMemory(LexemeAt)

\* two surface forms of one key: the second is drawn as a symbol
C18_Witness ==
    /\ InCall /\ ~fast_translate
    /\ \E h, g \in PlacedGlyphs :
          /\ h.idx < g.idx
          /\ h.word # g.word
          /\ Eligible(h.idx) /\ Eligible(g.idx)
          /\ LexemeAt(h.idx) = LexemeAt(g.idx)
          /\ h.kind = "text"
          /\ g.kind = "subtitled"

(***************************************************************************)
(* C19.  Meaning of seen.  As stated: while the loop runs, the lexeme of   *)
(* every eligible token processed so far is in words_seen, in fast mode as *)
(* in non-fast mode.                                                       *)
(***************************************************************************)
C19_SeenOnceProcessed ==
    pc = "loop" =>
        \A g \in PlacedGlyphs : Eligible(g.idx) => isSeen(LexemeAt(g.idx))

\* C19 as the code has it: a loop step in non-fast mode leaves the lexeme of an
\* eligible token in words_seen and removes nothing; a loop step in fast mode
\* does not touch words_seen
C19_SeenInNonFastModeOnly ==
    [][(pc = "loop" /\ pc' = "loop") =>
          IF fast_translate
          THEN words_seen' = words_seen
          ELSE /\ words_seen \subseteq words_seen'
               /\ Eligible(idx) => LexemeAt(idx) \in words_seen']_vars

\* fast mode has processed an eligible token and its lexeme is not seen
C19_Witness ==
    /\ pc = "loop" /\ fast_translate
    /\ \E g \in PlacedGlyphs :
          /\ Eligible(g.idx) /\ Available(g.idx)
          /\ g.kind = "subtitled"
          /\ ~isSeen(LexemeAt(g.idx))

(***************************************************************************)
(* C20.  A token that is punctuation, or whose tag is not a chosen part of *)
(* speech, or that has no direct, normalized or synonym match, is rendered *)
(* as text and leaves words_seen, words_changed and defns_chosen as they   *)
(* were.                                                                   *)
(***************************************************************************)
C20_IneligibleTokenIsTextNoMemoryEffect ==
    [][(pc = "loop" /\ pc' = "loop" /\ ~Eligible(idx)) =>
          /\ words_seen' = words_seen
          /\ words_changed' = words_changed
          /\ defns_chosen' = defns_chosen
          /\ bg'.glyphs # <<>>
          /\ bg'.glyphs[Len(bg'.glyphs)].idx = idx
          /\ bg'.glyphs[Len(bg'.glyphs)].kind = "text"]_vars

\* with a lexeme in the memory, a word that has no match or whose tag is not
\* chosen has been rendered after an eligible one
C20_Witness ==
    /\ pc = "loop"
    /\ words_seen # {}
    /\ \E g \in PlacedGlyphs :
          /\ ~isPunctuation(g.word) /\ g.word # NEWLINE
          /\ \/ isChosenPOS(tagged_list[g.idx + 1]) /\ ~canBeTranslated(LexemeAt(g.idx))
             \/ ~isChosenPOS(tagged_list[g.idx + 1])
          /\ g.kind = "text"
          /\ \E h \in PlacedGlyphs : h.idx < g.idx /\ Eligible(h.idx)


(***************************************************************************)
(* C21.  Coarse part of speech for the synonym lookup.  As stated: a noun  *)
(* tag (NN..) is looked up as noun, a verb tag (VB..) as verb, an          *)
(* adjective tag (JJ..) as adjective, and every other tag, the adverb tags *)
(* (RB..) included, as noun.                                               *)
(***************************************************************************)
\* wordnet.synsets(word, pos), and wordnet.synsets(word) when that is empty
LookedUpAs(word, pos) ==
    LET ofPos == SelectSeq(SynsetsOf(word), LAMBDA s : s.pos = pos)
    IN  IF Len(ofPos) = 0 THEN SynsetsOf(word) ELSE ofPos

C21_OtherTagsAreNouns ==
    res # NoCall =>
        LET tag == Prefix2(getWordTag(res.word))
        IN  res.synsets = LookedUpAs(res.word,
                              CASE tag = "NN" -> "n"
                                [] tag = "VB" -> "v"
                                [] tag = "JJ" -> "a"
                                [] OTHER -> "n")

\* C21 as the code has it: an adverb tag (RB..) is looked up as adverb, and only
\* a tag that is none of NN.., VB.., JJ.., RB.. is looked up as noun
C21_AdverbsAreAdverbs ==
    res # NoCall =>
        LET tag == Prefix2(getWordTag(res.word))
        IN  res.synsets = LookedUpAs(res.word,
                              CASE tag = "NN" -> "n"
                                [] tag = "VB" -> "v"
                                [] tag = "JJ" -> "a"
                                [] tag = "RB" -> "r"
                                [] OTHER -> "n")

\* an adverb with noun and adverb synsets gets its adverb synsets only
C21_Witness ==
    /\ res # NoCall
    /\ Prefix2(getWordTag(res.word)) = "RB"
    /\ \E i \in 1..Len(SynsetsOf(res.word)) : SynsetsOf(res.word)[i].pos = "n"
    /\ Len(res.synsets) > 0
    /\ \A i \in 1..Len(res.synsets) : res.synsets[i].pos = "r"

(***************************************************************************)
(* C22.  Overflow wrap: an iteration that finds indent + glyph width >     *)
(* page width pastes the glyph at x = 0 on the next line, which is line 0  *)
(* of a fresh page when the next line does not fit the page, and leaves    *)
(* indent = glyph width + space.                                           *)
(***************************************************************************)
\* the step is one completed iteration of the layout loop
Iteration == pc = "loop" /\ pc' = "loop" /\ idx' = idx + 1

\* the glyph the iteration has pasted
Pasted == bg'.glyphs[Len(bg'.glyphs)]

C22_OverflowWrap ==
    [][(Iteration /\ indent + Pasted.w > img_w) =>
          /\ Pasted.idx = idx
          /\ Pasted.x = 0
          /\ IF (line_no + 2) * LineHeight > img_h
             THEN /\ line_no' = 0
                  /\ pages' = Insert0(pages, bg)
                  /\ bg'.glyphs = <<Pasted>>
             ELSE /\ line_no' = line_no + 1
                  /\ pages' = pages
                  /\ bg'.glyphs = Append(bg.glyphs, Pasted)
          /\ Pasted.line = incLine(line_no', LineHeight)
          /\ indent' = Pasted.w + SpaceAfter(raw_phrase[idx + 1],
                                             getWordAtIndex(raw_phrase, idx + 1))]_vars

\* a glyph no wider than the page that did not fit behind its predecessor
\* stands at x = 0, and the cursor is behind it
C22_Witness ==
    /\ pc = "loop" /\ idx >= 2 /\ Len(bg.glyphs) >= 1
    /\ LET g == bg.glyphs[Len(bg.glyphs)]
       IN  /\ g.idx = idx - 1
           /\ g.w <= img_w
           /\ g.x = 0
           /\ \E h \in PlacedGlyphs :
                 /\ h.idx = g.idx - 1
                 /\ h.x + h.w <= img_w
                 /\ h.x + h.w + SpaceAfter(h.word, g.word) + g.w > img_w
           /\ indent = g.w + SpaceAfter(g.word, getWordAtIndex(raw_phrase, idx))

(***************************************************************************)
(* C23.  Newline is a line boundary.  As stated: every newline marker      *)
(* whose glyph does not overflow the line advances the line counter by one *)
(* and is pasted at the paragraph indent (one font size), whatever its     *)
(* neighbours are; so the token after a newline marker is never on the     *)
(* same line of the same page as the token before it.                      *)
(***************************************************************************)
C23_NewlineForcesLineBreak ==
    [][(Iteration /\ raw_phrase[idx + 1] = NEWLINE /\ indent + Pasted.w <= img_w) =>
          /\ Pasted.x = font_size
          /\ \/ line_no' = line_no + 1 /\ pages' = pages
             \/ line_no' = 0 /\ pages' = Insert0(pages, bg)]_vars

C23_NewlineSeparatesNeighbours ==
    InCall =>
        \A g0, g1, g2 \in PlacedGlyphs :
            (/\ g1.idx = g0.idx + 1 /\ g2.idx = g0.idx + 2
             /\ g1.word = NEWLINE)
              => ~SameLine(g0, g2)

\* C23: every newline marker that fits its line breaks the line, and so its
\* neighbours are never on one line
C23_NewlineIsLineBoundary ==
    C23_NewlineForcesLineBreak /\ []C23_NewlineSeparatesNeighbours

(***************************************************************************)
(* C24.  Layout cursor.  As stated: in every state of the layout loop,     *)
(* the states between two tokens included, indent and line_no are          *)
(* non-negative, indent <= page width and                                  *)
(* (line_no + 1) * line height <= page height.                             *)
(***************************************************************************)
C24_CursorInsidePage ==
    pc = "loop" =>
        /\ indent >= 0 /\ line_no >= 0
        /\ indent <= img_w
        /\ (line_no + 1) * LineHeight <= img_h

\* C24 as the code has it: between two tokens indent is the right edge of the
\* last glyph plus the gap chosen after it, which the page width does not
\* bound; the line of the cursor fits the page unless it is line 0
C24_CursorBehindLastGlyph ==
    pc = "loop" =>
        /\ indent >= 0 /\ line_no >= 0
        /\ line_no = 0 \/ (line_no + 1) * LineHeight <= img_h
        /\ idx = 0 => indent = font_size
        /\ idx > 0 =>
              /\ Len(bg.glyphs) >= 1
              /\ LET g == bg.glyphs[Len(bg.glyphs)]
                 IN  /\ g.idx = idx - 1
                     /\ g.x >= 0
                     /\ g.line = incLine(line_no, LineHeight)
                     /\ indent = g.x + g.w
                                 + SpaceAfter(g.word, getWordAtIndex(raw_phrase, idx))

\* the cursor is past the right edge although every glyph is inside the page
C24_Witness ==
    /\ pc = "loop" /\ idx > 0 /\ idx < Len(raw_phrase)
    /\ line_no >= 1
    /\ indent > img_w
    /\ \A g \in PlacedGlyphs : g.x + g.w <= img_w

(***************************************************************************)
(* C25.  Spacing priority chain: the gap after a glyph is 2 px whenever    *)
(* the next token is "n't"; otherwise 2 px when the current and the next   *)
(* token are both closing punctuation; only when neither holds does "next  *)
(* token is opening punctuation or current token is closing punctuation"   *)
(* make it floor(font_size / 1.5).  The gap is always one of the two.      *)
(***************************************************************************)
\* the gap the iteration has left behind the glyph it pasted
Gap == indent' - (Pasted.x + Pasted.w)
ThisWord == raw_phrase[idx + 1]
NextWord1 == IF idx + 2 <= Len(raw_phrase) THEN raw_phrase[idx + 2] ELSE ""
NextWord2 == IF idx + 3 <= Len(raw_phrase) THEN raw_phrase[idx + 3] ELSE ""
Closing(word) == word \in ENDING_PUNCT
Opening(word) == word \in STARTING_PUNCT

C25_SpacingPriorityChain ==
    [][Iteration =>
          /\ Gap \in {2, (font_size * 2) \div 3}
          /\ IF NextWord1 = "n't" THEN Gap = 2
             ELSE IF Closing(ThisWord) /\ Closing(NextWord1) THEN Gap = 2
             ELSE (Opening(NextWord1) \/ Closing(ThisWord))
                     => Gap = (font_size * 2) \div 3]_vars

\* the first rule has decided against the third ("n't" behind closing
\* punctuation), and the third has decided (opening punctuation behind "n't")
C25_Witness ==
    /\ pc = "loop"
    /\ \E g0, g1, g2 \in PlacedGlyphs :
          /\ g1.idx = g0.idx + 1 /\ g2.idx = g0.idx + 2
          /\ g0.word = "." /\ g1.word = "n't" /\ g2.word = "("
          /\ SameLine(g0, g1) /\ SameLine(g1, g2)
          /\ g1.x = g0.x + g0.w + 2
          /\ g2.x = g1.x + g1.w + (font_size * 2) \div 3

(***************************************************************************)
(* C26.  Minimal-gap conditions.  As stated: the gap is 2 px exactly when  *)
(* the next token is "n't", or the current and the next token are both     *)
(* closing punctuation, or the token two positions ahead is closing        *)
(* punctuation while the next token is not opening punctuation; for every  *)
(* other combination it is floor(font_size / 1.5).                         *)
(***************************************************************************)
C26_MinimalGapOnLookahead ==
    [][Iteration =>
          Gap = IF \/ NextWord1 = "n't"
                   \/ Closing(ThisWord) /\ Closing(NextWord1)
                   \/ Closing(NextWord2) /\ ~Opening(NextWord1)
                THEN 2 ELSE (font_size * 2) \div 3]_vars

\* C26 as the code has it: the third condition is that the next token is
\* closing punctuation or the current token is opening punctuation, while the
\* next token is not opening and the current token is not closing punctuation;
\* the token two positions ahead plays no part
C26_MinimalGapOnNeighbours ==
    [][Iteration =>
          Gap = IF \/ NextWord1 = "n't"
                   \/ Closing(ThisWord) /\ Closing(NextWord1)
                   \/ /\ Closing(NextWord1) \/ Opening(ThisWord)
                      /\ ~Opening(NextWord1) /\ ~Closing(ThisWord)
                THEN 2 ELSE (font_size * 2) \div 3]_vars

\* a word before closing punctuation is 2 px from it although the token after
\* the punctuation is not closing punctuation, and a word whose second
\* neighbour is closing punctuation keeps the full gap
C26_Witness ==
    /\ pc = "loop"
    /\ \E g0, g1, g2 \in PlacedGlyphs :
          /\ g1.idx = g0.idx + 1 /\ g2.idx = g0.idx + 2
          /\ g0.word = "cat" /\ g1.word = "cat" /\ g2.word = "."
          /\ raw_phrase[g2.idx + 2] = NEWLINE
          /\ SameLine(g0, g1) /\ SameLine(g1, g2)
          /\ g1.x = g0.x + g0.w + (font_size * 2) \div 3
          /\ g2.x = g1.x + g1.w + 2

(***************************************************************************)
(* C27.  Sessions are independent in their part-of-speech policy: the tags *)
(* a session treats as eligible are those of its own selection, whatever   *)
(* the other sessions have chosen; a session that never changed its        *)
(* selection uses the default set, also when it was created after another  *)
(* session changed its selection.                                          *)
(***************************************************************************)
\* the tags for which isChosenPOS answers True in session s
EligibleTags(s) == {pos \in PARTS_OF_SPEECH : isChosenPOS(pos)}

C27_SessionsIndependent ==
    \A s \in DOMAIN translatables :
        /\ EligibleTags(s) = ChosenBy(translatables[s])
        /\ translatables[s] = DefaultTranslatables => EligibleTags(s) = DEFAULT_POS

(***************************************************************************)
(* C28.  Termination and one token per iteration: the layout loop ends     *)
(* after exactly as many iterations as there are tokens; each iteration    *)
(* places exactly one glyph for exactly one token, in document order; the  *)
(* lookahead changes neither the token index nor the cursor.               *)
(***************************************************************************)
\* after idx iterations the tokens 0 .. idx-1 have one glyph each, and the
\* glyphs of a canvas are in document order
C28_OneGlyphPerToken ==
    InCall =>
        /\ Cardinality(PlacedGlyphs) = idx
        /\ \A i \in 0 .. idx - 1 :
              \E g \in PlacedGlyphs : g.idx = i /\ g.word = raw_phrase[i + 1]
        /\ \A i, j \in 1..Len(bg.glyphs) : i < j => bg.glyphs[i].idx < bg.glyphs[j].idx

\* an iteration takes the token at idx, pastes its glyph and moves on by one
C28_OneStepPerIteration ==
    [][(pc = "loop" /\ pc' = "loop") =>
          /\ idx' = idx + 1
          /\ Pasted.idx = idx /\ Pasted.word = raw_phrase[idx + 1]
          /\ PlacedGlyphs' = PlacedGlyphs \cup {Pasted}]_vars

\* the loop is left only when every token has had its iteration
C28_EndsAfterLastToken ==
    [][(pc = "loop" /\ pc' # "loop") => (pc' = "done" /\ idx = Len(raw_phrase))]_vars

\* C28: the three together
C28_TerminatesOneTokenPerIteration ==
    /\ []C28_OneGlyphPerToken
    /\ C28_OneStepPerIteration
    /\ C28_EndsAfterLastToken

(***************************************************************************)
(* C29.  In a translate call with fast_translate = False the changed set   *)
(* is a subset of the seen set in every state.                             *)
(***************************************************************************)
C29_ChangedSubsetOfSeen ==
    (pc = "loop" /\ ~fast_translate) => words_changed \subseteq words_seen

(***************************************************************************)
(* C30.  translate never consults or modifies the sticky disambiguation    *)
(* map: it never invokes chooseDefn, the map is the same before and after  *)
(* the call, and every ambiguous lexeme is drawn with its first candidate   *)
(* (index 0), also when the map holds another index for it.                *)
(***************************************************************************)
\* no glyph shows a candidate of an ambiguous lexeme other than its first
C30_FirstCandidateDrawn ==
    InCall =>
        /\ ret = NoCall
        /\ \A g \in PlacedGlyphs, w \in DOMAIN bliss_dict :
              (bliss_dict[w].list /\ g.file \in Range(bliss_dict[w].imgs))
                 => g.file = bliss_dict[w].imgs[1]

\* no step of a translate call writes the map or makes a chooseDefn call
C30_MapUntouched ==
    [][(pc # "idle" \/ pc' # "idle") =>
          (defns_chosen' = defns_chosen /\ ret' = NoCall)]_vars

\* C30: the two together
C30_TranslateIgnoresStickyMap ==
    []C30_FirstCandidateDrawn /\ C30_MapUntouched

\* the stored choice for "bank" is not index 0 (-1 is the last definition of a
\* Python list), and "bank" has been drawn with the first definition, with
\* and without its subtitle
C30_Witness ==
    /\ pc = "loop"
    /\ "bank" \in DOMAIN defns_chosen /\ defns_chosen["bank"] = -1
    /\ \E g, h \in PlacedGlyphs :
          /\ g.word = "bank" /\ g.kind = "subtitled"
          /\ h.word = "bank" /\ h.kind = "symbol"
          /\ g.file = bliss_dict["bank"].imgs[1]
          /\ h.file = bliss_dict["bank"].imgs[1]

====
